---- MODULE Spec2Model ----
(***************************************************************************)
(* State-machine model of the two analysis pipelines of the repository:    *)
(*   friedman_test      (src/Friedman_CH.py)                               *)
(*   mann_whitney_test  (src/mann_whitney_CH.py)                           *)
(* Both are sequential programs: load the CSV input(s), create the text    *)
(* report, loop over the variables (and evaluation rounds), write the      *)
(* comparisons CSV.  One action is one step of a program; pc is the        *)
(* position in its text.                                                   *)
(*                                                                         *)
(* Numbers.  The library statistics are rational functions of ranks and    *)
(* order statistics; they are carried exactly as integers:                 *)
(*   - ranks are doubled (average ranks are multiples of 1/2);             *)
(*   - medians and quartiles are multiplied by 4 (linear interpolation at  *)
(*     positions q*(n-1)/4);                                               *)
(*   - the Friedman chi-square is the fraction num/den of the formula of   *)
(*     scipy.stats.friedmanchisquare, NaN when den = 0 (0/0);              *)
(*   - a Nemenyi p-value is psturng(c(k,n) * |R_i - R_j|): it is carried   *)
(*     as the doubled rank-sum distance that determines it;                *)
(*   - a Mann-Whitney p-value is carried as |2U - n1*n2| with the doubled  *)
(*     statistic 2U.                                                       *)
(* A missing value (NaN) of a matrix handed to friedmanchisquare           *)
(* propagates to the statistic (scipy's nan_policy 'propagate').           *)
(* The plotting collaborator (create_comparison_plots) is not modelled.    *)
(***************************************************************************)
EXTENDS Integers, Sequences, FiniteSets, TLC

\* ------------------------------------------------------------------ bounds
\* Most evaluation rounds of a friedman_test input.
MaxEvals == 3
\* Most raw observations of one group in one (variable, round) cell of the
\* single-cell Mann-Whitney specification.
MaxObs == 3

\* ----------------------------------------------------------- input domains
\* A missing value of a column (pandas NaN).
NaN == -1
\* Measured values.
Values == {1, 2}
\* Patient identifiers of a friedman_test input.
Pacientes == {1, 2}
\* The measurement columns, in file order.
Columnas == <<"v1", "v2">>

\* ----------------------------------------------------------------- helpers
Range(s) == {s[i] : i \in DOMAIN s}

Min(S) == CHOOSE x \in S : \A y \in S : x <= y

Abs(x) == IF x < 0 THEN 0 - x ELSE x

RECURSIVE SortSet(_)
\* sorted(...): the elements of S in ascending order.
SortSet(S) ==
  IF S = {} THEN <<>> ELSE <<Min(S)>> \o SortSet(S \ {Min(S)})

RECURSIVE Insert(_, _)
Insert(x, s) ==
  IF s = <<>> THEN <<x>>
  ELSE IF x <= Head(s) THEN <<x>> \o s
  ELSE <<Head(s)>> \o Insert(x, Tail(s))

RECURSIVE SortedSeq(_)
\* The values of s in ascending order, repetitions kept.
SortedSeq(s) == IF s = <<>> THEN <<>> ELSE Insert(Head(s), SortedSeq(Tail(s)))

RECURSIVE Unique(_)
\* Series.unique(): the distinct values in order of first appearance.
Unique(s) ==
  IF s = <<>> THEN <<>>
  ELSE LET u == Unique(SubSeq(s, 1, Len(s) - 1))
           x == s[Len(s)]
       IN  IF x \in Range(u) THEN u ELSE Append(u, x)

RECURSIVE SumSeq(_)
SumSeq(s) == IF s = <<>> THEN 0 ELSE Head(s) + SumSeq(Tail(s))

\* ------------------------------------------------------------------- state
VARIABLES
  prog,            \* which entry point runs
  pc,              \* position in the program
  input,           \* content of the (first) input file
  readable,        \* per input file: the encodings read_csv succeeds with
  attempts,        \* read_csv calls made so far, <<file, encoding>>, in order
  encoding,        \* per input file: the encoding its table was read with
  data,            \* rows (paciente, evaluacion) of the loaded table
  variables,       \* the selected measurement columns
  unique_evals,    \* friedman_test: data['evaluacion'].unique()
  evaluaciones,    \* mann_whitney_test: sorted(data1['evaluacion'].unique())
  var_idx,         \* index of the variable being processed
  eval_idx,        \* index of the round being processed (mann_whitney_test)
  current_data,    \* friedman_test: the column of the current variable
  friedman_X,      \* the matrix last handed to stats.friedmanchisquare
  grupo1, grupo2,  \* mann_whitney_test: the two groups of the current cell
  handle,          \* state of the output_file handle
  report,          \* content of output_file
  all_comparisons, \* friedman_test: the accumulated comparison records
  all_results,     \* mann_whitney_test: the accumulated comparison records
  csv,             \* the to_csv calls made on comparisons_csv_file
  diag,            \* whether the "no valid comparisons" message was printed
  seen,            \* history: the columns of the variables read so far
  qualified        \* history: the cells read so far with 2 valid values per group

vars ==
  <<prog, pc, input, readable, attempts, encoding, data, variables,
    unique_evals, evaluaciones, var_idx, eval_idx, current_data, friedman_X,
    grupo1, grupo2, handle, report, all_comparisons, all_results, csv, diag,
    seen, qualified>>

\* ----------------------------------------------------------------- loading
\* The encoding candidates, in the order the except-cascade tries them.
Encodings == <<"latin1", "iso-8859-1", "detected">>

\* The input files of an entry point, in the order they are read.
Files(p) == IF p = "friedman" THEN <<"csv_file">> ELSE <<"csv_file1", "csv_file2">>

\* pd.read_csv(file, encoding=enc) returns a table (does not raise).
ReadCsv(file, enc) == enc \in readable[file]

\* The files read at one stage of the cascade: every file up to and including
\* the first whose read raises.
Tried(enc) ==
  LET fs == Files(prog)
      bad == {i \in DOMAIN fs : ~ReadCsv(fs[i], enc)}
  IN  IF bad = {} THEN fs ELSE SubSeq(fs, 1, Min(bad))

StageOk(enc) == \A i \in DOMAIN Files(prog) : ReadCsv(Files(prog)[i], enc)

\* One try-block of the cascade: read every file with enc; the first failure
\* leaves the block (and, at the last stage, the program).
ReadStage(enc, fail_pc) ==
  /\ attempts' = attempts \o [i \in DOMAIN Tried(enc) |-> <<Tried(enc)[i], enc>>]
  /\ IF StageOk(enc)
     THEN /\ encoding' = [f \in Range(Files(prog)) |-> enc]
          /\ data' = input.rows
          /\ pc' = "setup"
     ELSE /\ pc' = fail_pc
          /\ UNCHANGED <<encoding, data>>
  /\ UNCHANGED <<prog, input, seen, qualified, readable, variables, unique_evals, evaluaciones,
                 var_idx, eval_idx, current_data, friedman_X, grupo1, grupo2,
                 handle, report, all_comparisons, all_results, csv, diag>>

ReadLatin1 == pc = "read_latin1" /\ ReadStage("latin1", "read_iso")

ReadIso == pc = "read_iso" /\ ReadStage("iso-8859-1", "read_detected")

ReadDetected == pc = "read_detected" /\ ReadStage("detected", "aborted")

\* ------------------------------------------------------- report creation
Title == [kind |-> "title", prog |-> prog]

\* The statements between the load and the first write, and the open(..., 'w')
\* that creates (or truncates) the report.
OpenReport ==
  /\ pc = "setup"
  /\ variables' = input.columns
  /\ unique_evals' =
       IF prog = "friedman"
       THEN Unique([i \in DOMAIN data |-> data[i].evaluacion]) ELSE <<>>
  /\ evaluaciones' =
       IF prog = "friedman"
       THEN <<>> ELSE SortSet(Range([i \in DOMAIN data |-> data[i].evaluacion]))
  /\ handle' = "w"
  /\ report' = <<>>
  /\ pc' = "title"
  /\ UNCHANGED <<prog, input, seen, qualified, readable, attempts, encoding, data, var_idx,
                 eval_idx, current_data, friedman_X, grupo1, grupo2,
                 all_comparisons, all_results, csv, diag>>

\* f.write(title) and the close at the end of the with-block.
WriteTitle ==
  /\ pc = "title"
  /\ handle = "w"
  /\ report' = Append(report, Title)
  /\ handle' = "closed"
  /\ var_idx' = 1
  /\ pc' = IF prog = "friedman" THEN "f_loop" ELSE "m_var"
  /\ UNCHANGED <<prog, input, seen, qualified, readable, attempts, encoding, data, variables,
                 unique_evals, evaluaciones, eval_idx, current_data, friedman_X,
                 grupo1, grupo2, all_comparisons, all_results, csv, diag>>

\* ------------------------------------------------------------ friedman_test
NumRows(X) == Len(X)

NumCols(X) == Len(X[1])

\* current_data.isnull().any()
HasNull(col) == \E i \in DOMAIN col : col[i] = NaN

\* data.pivot(index='paciente', columns='evaluacion', values=var_name).values:
\* one row per patient and one column per round, both in ascending order; the
\* cell of a (patient, round) pair without a row in data is NaN.
Pivot(rows, col) ==
  LET pats == SortSet({rows[i].paciente : i \in DOMAIN rows})
      evs == SortSet({rows[i].evaluacion : i \in DOMAIN rows})
      At(p, e) == {i \in DOMAIN rows : rows[i].paciente = p /\ rows[i].evaluacion = e}
      Cell(p, e) == IF At(p, e) = {} THEN NaN ELSE col[CHOOSE i \in At(p, e) : TRUE]
  IN  [a \in DOMAIN pats |-> [b \in DOMAIN evs |-> Cell(pats[a], evs[b])]]

\* np.all(X == X[0,0]); a NaN compares unequal to everything, itself included.
AllEqual(X) ==
  /\ X[1][1] # NaN
  /\ \A a \in DOMAIN X : \A b \in DOMAIN X[a] : X[a][b] = X[1][1]

HasNaNCell(X) == \E a \in DOMAIN X : \E b \in DOMAIN X[a] : X[a][b] = NaN

\* rankdata(row)[j], doubled: the average rank of row[j] among the row.
RankD(row, j) ==
  2 * Cardinality({i \in DOMAIN row : row[i] < row[j]})
  + Cardinality({i \in DOMAIN row : row[i] = row[j]}) + 1

\* The doubled sum of the ranks of column j over the patients.
ColSumD(X, j) == SumSeq([a \in DOMAIN X |-> RankD(X[a], j)])

\* The tie term of one row: the sum of t*(t*t-1) over its groups of t equal values.
TieTerm(row) ==
  LET Cnt(v) == Cardinality({i \in DOMAIN row : row[i] = v})
      vs == SortSet(Range(row))
  IN  SumSeq([m \in DOMAIN vs |-> Cnt(vs[m]) * (Cnt(vs[m]) * Cnt(vs[m]) - 1)])

\* stats.friedmanchisquare(*columns of X): raises with fewer than 3 samples;
\* the statistic is num/den, NaN when a cell is NaN or when num/den is 0/0
\* (every patient's values are all tied).
FriedmanChiSquare(X) ==
  LET k == NumCols(X)
      n == NumRows(X)
      ssq == SumSeq([j \in 1..k |-> ColSumD(X, j) * ColSumD(X, j)])
      ties == SumSeq([a \in DOMAIN X |-> TieTerm(X[a])])
      num == 3 * (k - 1) * (ssq - n * n * k * (k + 1) * (k + 1))
      den == k * (k * k - 1) * n - ties
  IN  [raises |-> k < 3,
       nan |-> k >= 3 /\ (HasNaNCell(X) \/ den = 0),
       num |-> num, den |-> den]

\* sp.posthoc_nemenyi_friedman(X): entry [i][j] is the p-value of matrix
\* columns i and j, carried as the doubled distance of their rank sums.
PosthocNemenyi(X) ==
  LET R == [j \in 1..NumCols(X) |-> ColSumD(X, j)]
  IN  [i \in 1..NumCols(X) |-> [j \in 1..NumCols(X) |->
         IF i = j THEN 0 ELSE Abs(R[i] - R[j])]]

\* The courses a patient's values can take over the rounds evs: constant low,
\* constant high, rising with the round, and low with a high last round.
Perfiles(evs) ==
  {[e \in evs |-> 1], [e \in evs |-> 2], [e \in evs |-> e],
   [e \in evs |-> IF \A d \in evs : d <= e THEN 2 ELSE 1]}

\* The columns a variable can hold over the rows of the table: every patient
\* follows one of the courses, or the column is constant with its first value
\* missing.
ColumnsOf(rows) ==
  LET evs == {rows[i].evaluacion : i \in DOMAIN rows}
  IN  {[i \in DOMAIN rows |-> prof[rows[i].paciente][rows[i].evaluacion]] :
         prof \in [Pacientes -> Perfiles(evs)]}
      \cup {[i \in DOMAIN rows |-> IF i = 1 THEN NaN ELSE 1]}

num_evals == Len(unique_evals)

\* FSkip with a break in place of the continue: the loop ends.
FSkipBreak ==
  /\ var_idx' = Len(variables) + 1
  /\ pc' = "f_loop"

\* The statements that end one pass of the for-loop without output: a
\* continue, or the except clause that prints the error.
FSkip ==
  /\ var_idx' = var_idx + 1
  /\ pc' = "f_loop"

\* Lines 44-79 for the next variable: the checks, the Friedman test and the
\* Nemenyi test.
FCheck ==
  /\ pc = "f_loop"
  /\ var_idx <= Len(variables)
  /\ \E col \in ColumnsOf(data) :
       LET X == Pivot(data, col)
           test == FriedmanChiSquare(X)
       IN
       /\ current_data' = col
       /\ seen' = Append(seen, col)
       /\ IF HasNull(col) \/ AllEqual(X)
          THEN FSkip /\ UNCHANGED friedman_X
          ELSE /\ friedman_X' = X
               /\ IF test.raises \/ test.nan
                  THEN FSkip
                  ELSE pc' = "f_open" /\ UNCHANGED var_idx
  /\ UNCHANGED <<prog, input, qualified, readable, attempts, encoding, data, variables,
                 unique_evals, evaluaciones, eval_idx, grupo1, grupo2, handle,
                 report, all_comparisons, all_results, csv, diag>>

\* The report block of variable var with column col.
FBlockOf(var, col) ==
  LET X == Pivot(data, col)
      test == FriedmanChiSquare(X)
  IN  [kind |-> "block",
       Variable |-> var,
       statistic |-> <<test.num, test.den>>,
       gl |-> num_evals - 1,
       nemenyi |-> PosthocNemenyi(X)]

\* open(output_file, 'a')
FOpen ==
  /\ pc = "f_open"
  /\ handle' = "a"
  /\ pc' = "f_write"
  /\ UNCHANGED <<prog, input, seen, qualified, readable, attempts, encoding, data, variables,
                 unique_evals, evaluaciones, var_idx, eval_idx, current_data,
                 friedman_X, grupo1, grupo2, report, all_comparisons,
                 all_results, csv, diag>>

\* FWrite on a handle opened with mode 'w': the block replaces the content.
FWriteTruncating ==
  /\ pc = "f_write"
  /\ handle = "a"
  /\ report' = <<FBlockOf(variables[var_idx], current_data)>>
  /\ handle' = "closed"
  /\ pc' = "f_records"
  /\ UNCHANGED <<prog, input, seen, qualified, readable, attempts, encoding,
                 data, variables, unique_evals, evaluaciones, var_idx, eval_idx,
                 current_data, friedman_X, grupo1, grupo2, all_comparisons,
                 all_results, csv, diag>>

\* The writes of the block and the close at the end of the with-block.
FWrite ==
  /\ pc = "f_write"
  /\ handle = "a"
  /\ report' = Append(report, FBlockOf(variables[var_idx], current_data))
  /\ handle' = "closed"
  /\ pc' = "f_records"
  /\ UNCHANGED <<prog, input, seen, qualified, readable, attempts, encoding, data, variables,
                 unique_evals, evaluaciones, var_idx, eval_idx, current_data,
                 friedman_X, grupo1, grupo2, all_comparisons, all_results, csv,
                 diag>>

RECURSIVE PairsFromSelf(_, _, _)
\* PairsFrom with the inner loop started at i instead of i+1.
PairsFromSelf(i, j, n) ==
  IF i > n THEN <<>>
  ELSE IF j > n THEN PairsFromSelf(i + 1, i + 1, n)
  ELSE <<<<i, j>>>> \o PairsFromSelf(i, j + 1, n)

RECURSIVE PairsFrom(_, _, _)
\* The index pairs of the two nested range() loops, in loop order.
PairsFrom(i, j, n) ==
  IF i >= n THEN <<>>
  ELSE IF j > n THEN PairsFrom(i + 1, i + 2, n)
  ELSE <<<<i, j>>>> \o PairsFrom(i, j + 1, n)

\* The comparison record of loop indices (i, j), 1-based here.
FRecord(var, nemenyi_results, i, j) ==
  [Variable |-> var,
   Grupo1 |-> unique_evals[i],
   Grupo2 |-> unique_evals[j],
   p_valor |-> nemenyi_results[i][j]]

\* The list `comparisons` of variable var with column col.
FComparisons(var, col) ==
  LET ps == PairsFrom(1, 2, num_evals)
      nemenyi_results == PosthocNemenyi(Pivot(data, col))
  IN  [m \in DOMAIN ps |-> FRecord(var, nemenyi_results, ps[m][1], ps[m][2])]

\* IlocRaises for a matrix indexed from 1: the last loop index is outside.
IlocRaisesLastIndex(col) == num_evals >= NumCols(Pivot(data, col))

\* nemenyi_results.iloc[i,j] raises for an index outside the matrix.
IlocRaises(col) == num_evals > NumCols(Pivot(data, col))

\* Lines 93-105: build the records and concatenate them to all_comparisons;
\* an exception leaves all_comparisons as it was.
FRecords ==
  /\ pc = "f_records"
  /\ all_comparisons' =
       IF IlocRaises(current_data) THEN all_comparisons
       ELSE all_comparisons \o FComparisons(variables[var_idx], current_data)
  /\ FSkip
  /\ UNCHANGED <<prog, input, seen, qualified, readable, attempts, encoding, data, variables,
                 unique_evals, evaluaciones, eval_idx, current_data, friedman_X,
                 grupo1, grupo2, handle, report, all_results, csv, diag>>

\* FFinish without the test for an empty table: the CSV is always written.
FFinishAlways ==
  /\ pc = "f_loop"
  /\ var_idx > Len(variables)
  /\ csv' = Append(csv, all_comparisons)
  /\ pc' = "done"
  /\ UNCHANGED <<prog, input, seen, qualified, readable, attempts, encoding,
                 data, variables, unique_evals, evaluaciones, var_idx, eval_idx,
                 current_data, friedman_X, grupo1, grupo2, handle, report,
                 all_comparisons, all_results, diag>>

\* Lines 110-114: write the CSV when there are records, else print the message.
FFinish ==
  /\ pc = "f_loop"
  /\ var_idx > Len(variables)
  /\ IF all_comparisons # <<>>
     THEN csv' = Append(csv, all_comparisons) /\ UNCHANGED diag
     ELSE diag' = TRUE /\ UNCHANGED csv
  /\ pc' = "done"
  /\ UNCHANGED <<prog, input, seen, qualified, readable, attempts, encoding, data, variables,
                 unique_evals, evaluaciones, var_idx, eval_idx, current_data,
                 friedman_X, grupo1, grupo2, handle, report, all_comparisons,
                 all_results>>

\* -------------------------------------------------------- mann_whitney_test
\* Series.dropna()
DropNa(s) == SelectSeq(s, LAMBDA x : x # NaN)

\* Insufficient with a threshold of 3 valid observations in place of 2.
InsufficientBelowThree(g1, g2) == Len(g1) < 3 \/ Len(g2) < 3

\* The check of line 244: either group has fewer than 2 valid observations.
Insufficient(g1, g2) == Len(g1) < 2 \/ Len(g2) < 2

\* stats.mannwhitneyu(g1, g2).statistic, doubled: twice the number of pairs
\* with g1's value above g2's, plus the number of tied pairs.
MannWhitneyU(g1, g2) ==
  2 * Cardinality({<<i, j>> \in (DOMAIN g1) \X (DOMAIN g2) : g1[i] > g2[j]})
  + Cardinality({<<i, j>> \in (DOMAIN g1) \X (DOMAIN g2) : g1[i] = g2[j]})

\* The two-sided p-value, carried as the distance of the doubled statistic
\* from its null mean n1*n2.
MannWhitneyP(g1, g2) == Abs(MannWhitneyU(g1, g2) - Len(g1) * Len(g2))

\* Quantile without the sort: interpolation between the values in row order.
QuantileUnsorted(s, q) ==
  LET lo == (q * (Len(s) - 1)) \div 4
      fr == (q * (Len(s) - 1)) % 4
  IN  IF fr = 0 THEN 4 * s[lo + 1]
      ELSE 4 * s[lo + 1] + fr * (s[lo + 2] - s[lo + 1])

\* Series.quantile(q/4) of a non-empty series, times 4: linear interpolation
\* between the order statistics around position q*(n-1)/4.
Quantile(s, q) ==
  LET a == SortedSeq(s)
      lo == (q * (Len(s) - 1)) \div 4
      fr == (q * (Len(s) - 1)) % 4
  IN  IF fr = 0 THEN 4 * a[lo + 1]
      ELSE 4 * a[lo + 1] + fr * (a[lo + 2] - a[lo + 1])

\* Series.median(), times 4.
Median(s) == Quantile(s, 2)

\* Iqr with the two quartiles exchanged.
IqrSwapped(s) == Quantile(s, 1) - Quantile(s, 3)

\* grupo.quantile(0.75) - grupo.quantile(0.25), times 4.
Iqr(s) == Quantile(s, 3) - Quantile(s, 1)

\* The comparison record of one (variable, round) cell.
MRecord(var, ev, g1, g2) ==
  [Variable |-> var,
   Evaluacion |-> ev,
   Mediana_Grupo1 |-> Median(g1),
   RIC_Grupo1 |-> Iqr(g1),
   Q25_Grupo1 |-> Quantile(g1, 1),
   Q75_Grupo1 |-> Quantile(g1, 3),
   Mediana_Grupo2 |-> Median(g2),
   RIC_Grupo2 |-> Iqr(g2),
   Q25_Grupo2 |-> Quantile(g2, 1),
   Q75_Grupo2 |-> Quantile(g2, 3),
   Estadistico_U |-> MannWhitneyU(g1, g2),
   p_valor |-> MannWhitneyP(g1, g2)]

\* The report block of one (variable, round) cell.
MBlock(ev, g1, g2) ==
  [kind |-> "eval",
   Evaluacion |-> ev,
   Mediana_Grupo1 |-> Median(g1),
   RIC_Grupo1 |-> Iqr(g1),
   Mediana_Grupo2 |-> Median(g2),
   RIC_Grupo2 |-> Iqr(g2),
   Estadistico_U |-> MannWhitneyU(g1, g2),
   p_valor |-> MannWhitneyP(g1, g2)]

\* open(output_file, 'a') for the header of the next variable.
MOpenVar ==
  /\ pc = "m_var"
  /\ var_idx <= Len(variables)
  /\ handle' = "a"
  /\ pc' = "m_header"
  /\ UNCHANGED <<prog, input, seen, qualified, readable, attempts, encoding, data, variables,
                 unique_evals, evaluaciones, var_idx, eval_idx, current_data,
                 friedman_X, grupo1, grupo2, report, all_comparisons,
                 all_results, csv, diag>>

\* The write of the variable header and the close of the with-block.
MWriteHeader ==
  /\ pc = "m_header"
  /\ handle = "a"
  /\ report' = Append(report, [kind |-> "header", Variable |-> variables[var_idx]])
  /\ handle' = "closed"
  /\ eval_idx' = 1
  /\ pc' = "m_cell"
  /\ UNCHANGED <<prog, input, seen, qualified, readable, attempts, encoding, data, variables,
                 unique_evals, evaluaciones, var_idx, current_data, friedman_X,
                 grupo1, grupo2, all_comparisons, all_results, csv, diag>>

\* Lines 238-270 for the next round: the values of the variable in the rows
\* of that round of each file (any of the slices the input can hold), without
\* the missing ones; the size check; the test and the descriptive statistics.
MCell ==
  /\ pc = "m_cell"
  /\ eval_idx <= Len(evaluaciones)
  /\ \E raw1 \in input.slices1, raw2 \in input.slices2 :
       /\ grupo1' = DropNa(raw1)
       /\ grupo2' = DropNa(raw2)
       /\ qualified' =
            IF Len(DropNa(raw1)) >= 2 /\ Len(DropNa(raw2)) >= 2
            THEN qualified + 1 ELSE qualified
       /\ IF Insufficient(DropNa(raw1), DropNa(raw2))
          THEN eval_idx' = eval_idx + 1 /\ pc' = "m_cell"
          ELSE pc' = "m_open" /\ UNCHANGED eval_idx
  /\ UNCHANGED <<prog, input, seen, readable, attempts, encoding, data, variables,
                 unique_evals, evaluaciones, var_idx, current_data, friedman_X,
                 handle, report, all_comparisons, all_results, csv, diag>>

\* open(output_file, 'a') for the block of the cell.
MOpen ==
  /\ pc = "m_open"
  /\ handle' = "a"
  /\ pc' = "m_write"
  /\ UNCHANGED <<prog, input, seen, qualified, readable, attempts, encoding, data, variables,
                 unique_evals, evaluaciones, var_idx, eval_idx, current_data,
                 friedman_X, grupo1, grupo2, report, all_comparisons,
                 all_results, csv, diag>>

\* The writes of the block and the close of the with-block.
MWrite ==
  /\ pc = "m_write"
  /\ handle = "a"
  /\ report' = Append(report, MBlock(evaluaciones[eval_idx], grupo1, grupo2))
  /\ handle' = "closed"
  /\ pc' = "m_append"
  /\ UNCHANGED <<prog, input, seen, qualified, readable, attempts, encoding, data, variables,
                 unique_evals, evaluaciones, var_idx, eval_idx, current_data,
                 friedman_X, grupo1, grupo2, all_comparisons, all_results, csv,
                 diag>>

\* all_results.append(...) and the end of the pass.
MAppend ==
  /\ pc = "m_append"
  /\ all_results' =
       Append(all_results,
              MRecord(variables[var_idx], evaluaciones[eval_idx], grupo1, grupo2))
  /\ eval_idx' = eval_idx + 1
  /\ pc' = "m_cell"
  /\ UNCHANGED <<prog, input, seen, qualified, readable, attempts, encoding, data, variables,
                 unique_evals, evaluaciones, var_idx, current_data, friedman_X,
                 grupo1, grupo2, handle, report, all_comparisons, csv, diag>>

\* The end of the inner loop: on to the next variable.
MNextVar ==
  /\ pc = "m_cell"
  /\ eval_idx > Len(evaluaciones)
  /\ var_idx' = var_idx + 1
  /\ pc' = "m_var"
  /\ UNCHANGED <<prog, input, seen, qualified, readable, attempts, encoding, data, variables,
                 unique_evals, evaluaciones, eval_idx, current_data, friedman_X,
                 grupo1, grupo2, handle, report, all_comparisons, all_results,
                 csv, diag>>

\* Lines 299-304: write the CSV when there are records, else print the message.
MFinish ==
  /\ pc = "m_var"
  /\ var_idx > Len(variables)
  /\ IF all_results # <<>>
     THEN csv' = Append(csv, all_results) /\ UNCHANGED diag
     ELSE diag' = TRUE /\ UNCHANGED csv
  /\ pc' = "done"
  /\ UNCHANGED <<prog, input, seen, qualified, readable, attempts, encoding, data, variables,
                 unique_evals, evaluaciones, var_idx, eval_idx, current_data,
                 friedman_X, grupo1, grupo2, handle, report, all_comparisons,
                 all_results>>

\* ----------------------------------------------------------- specification
\* The encodings one file can be read with: 'latin1' and 'iso-8859-1' name
\* the same codec, so a file is readable with both or with neither.
ReadableSets == {{}, {"detected"}, {"latin1", "iso-8859-1"},
                 {"latin1", "iso-8859-1", "detected"}}

\* The rows of a friedman_test input: the rounds in order of first
\* appearance, the patients of a round in ascending order, without the
\* (patient, round) pairs that have no row.
RowsOf(order, absent) ==
  LET ps == SortSet(Pacientes)
      n == Len(ps)
      full == [i \in 1..(Len(order) * n) |->
                 [paciente |-> ps[((i - 1) % n) + 1],
                  evaluacion |-> order[((i - 1) \div n) + 1]]]
  IN  SelectSeq(full, LAMBDA r : <<r.paciente, r.evaluacion>> \notin absent)

\* Orders in which k rounds first appear in the file: ascending from any
\* round on (wrapping around), and the same descending.  For k <= 3 these are
\* all orders.
RoundOrders(k) ==
  {[i \in 1..k |-> ((i - 1 + t) % k) + 1] : t \in 0..(k - 1)}
  \cup {[i \in 1..k |-> k - ((i - 1 + t) % k)] : t \in 0..(k - 1)}

\* The tables friedman_test is run on: complete tables with the rounds first
\* appearing in one of these orders, and tables in ascending order in which
\* the second patient has no row for one round.
FriedmanInputs ==
  {[rows |-> RowsOf(order, {}), columns |-> Columnas,
    slices1 |-> {}, slices2 |-> {}] :
     order \in UNION {RoundOrders(k) : k \in 1..MaxEvals}}
  \cup {[rows |-> RowsOf(SortSet(1..k), {<<2, r>>}), columns |-> Columnas,
         slices1 |-> {}, slices2 |-> {}] : k \in 1..MaxEvals, r \in 1..MaxEvals}

\* All sequences over S of length at most n.
SeqsUpTo(S, n) == UNION {[1..m -> S] : m \in 0..n}

\* A few column slices of a (variable, round) cell: none, one valid value,
\* two raw values of which one is valid, two and three valid values.
Slices == {<<>>, <<1>>, <<1, NaN>>, <<2, 1>>, <<2, NaN, 1, 2>>}

\* The tables mann_whitney_test is run on (rows: those of csv_file1): one or
\* two variables and one or two rounds in any order with a few slices per
\* cell, and one variable at one round with, in csv_file1, every slice of up
\* to MaxObs raw values.
MannWhitneyInputs ==
  {[rows |-> RowsOf(order, {}), columns |-> cols,
    slices1 |-> Slices, slices2 |-> Slices] :
     order \in {<<1>>, <<1, 2>>, <<2, 1>>},
     cols \in {<<"v1">>, <<"v1", "v2">>, <<"v2", "v1">>}}
  \cup {[rows |-> RowsOf(<<1>>, {}), columns |-> <<"v1">>,
         slices1 |-> SeqsUpTo(Values \cup {NaN}, MaxObs), slices2 |-> Slices]}

AllReadable(p) == [f \in Range(Files(p)) |-> {"latin1", "iso-8859-1", "detected"}]

\* The runs: every table with readable files, and one table with every
\* combination of readable and unreadable files.
Runs ==
  {[prog |-> "friedman", input |-> i, readable |-> AllReadable("friedman")] :
     i \in FriedmanInputs}
  \cup {[prog |-> "friedman",
         input |-> [rows |-> RowsOf(<<1, 2, 3>>, {}), columns |-> Columnas,
                    slices1 |-> {}, slices2 |-> {}],
         readable |-> r] : r \in [Range(Files("friedman")) -> ReadableSets]}
  \cup {[prog |-> "mann_whitney", input |-> i,
         readable |-> AllReadable("mann_whitney")] : i \in MannWhitneyInputs}
  \cup {[prog |-> "mann_whitney",
         input |-> [rows |-> RowsOf(<<1>>, {}), columns |-> <<"v1">>,
                    slices1 |-> Slices, slices2 |-> Slices],
         readable |-> r] : r \in [Range(Files("mann_whitney")) -> ReadableSets]}

Init ==
  /\ \E run \in Runs :
       /\ prog = run.prog
       /\ input = run.input
       /\ readable = run.readable
  /\ pc = "read_latin1"
  /\ attempts = <<>>
  /\ encoding = [f \in Range(Files(prog)) |-> "none"]
  /\ data = <<>>
  /\ variables = <<>>
  /\ unique_evals = <<>>
  /\ evaluaciones = <<>>
  /\ var_idx = 0
  /\ eval_idx = 0
  /\ current_data = <<>>
  /\ friedman_X = <<>>
  /\ grupo1 = <<>>
  /\ grupo2 = <<>>
  /\ handle = "closed"
  /\ report = <<[kind |-> "stale"]>>
  /\ all_comparisons = <<>>
  /\ all_results = <<>>
  /\ csv = <<>>
  /\ diag = FALSE
  /\ seen = <<>>
  /\ qualified = 0

Next ==
  \/ ReadLatin1
  \/ ReadIso
  \/ ReadDetected
  \/ OpenReport
  \/ WriteTitle
  \/ FCheck
  \/ FOpen
  \/ FWrite
  \/ FRecords
  \/ FFinish
  \/ MOpenVar
  \/ MWriteHeader
  \/ MCell
  \/ MOpen
  \/ MWrite
  \/ MAppend
  \/ MNextVar
  \/ MFinish

Spec == Init /\ [][Next]_vars

\* ------------------------------------------------- friedman_test: outputs
\* The friedman_test variables whose pass of the for-loop has ended.
Processed ==
  IF prog # "friedman" THEN {}
  ELSE IF pc \in {"f_open", "f_write", "f_records"} THEN 1..(Len(seen) - 1)
  ELSE 1..Len(seen)

\* The report blocks and the comparison records that name variable v.
NumBlocks(v) ==
  Cardinality({i \in DOMAIN report :
                 report[i].kind = "block" /\ report[i].Variable = v})

NumRecords(v) ==
  Cardinality({i \in DOMAIN all_comparisons : all_comparisons[i].Variable = v})

\* The distinct evaluation rounds and patients of the loaded table.
Rounds == {data[i].evaluacion : i \in DOMAIN data}

Patients == {data[i].paciente : i \in DOMAIN data}

Choose2(k) == (k * (k - 1)) \div 2

\* Column col has a missing value / holds one single value.
Missing(col) == \E i \in DOMAIN col : col[i] = NaN

Constant(col) == \A i, j \in DOMAIN col : col[i] = col[j]

\* Every patient has a row at every round.
CompleteTable == Len(data) = Cardinality(Patients) * Cardinality(Rounds)

\* Some patient's values of column col differ between two rounds.
VariesWithinPatient(col) ==
  \E i, j \in DOMAIN col : data[i].paciente = data[j].paciente /\ col[i] # col[j]

FEmits(col) ==
  LET X == Pivot(data, col)
      test == FriedmanChiSquare(X)
  IN  ~HasNull(col) /\ ~AllEqual(X) /\ ~test.raises /\ ~test.nan

RECURSIVE FReportOver(_)
\* The blocks of a run over the variables with indices idxs, in that order.
FReportOver(idxs) ==
  IF idxs = <<>> THEN <<>>
  ELSE (IF FEmits(seen[Head(idxs)])
        THEN <<FBlockOf(variables[Head(idxs)], seen[Head(idxs)])>> ELSE <<>>)
       \o FReportOver(Tail(idxs))

RECURSIVE FComparisonsOver(_)
\* The comparison records of a run over the variables with indices idxs.
FComparisonsOver(idxs) ==
  IF idxs = <<>> THEN <<>>
  ELSE (IF FEmits(seen[Head(idxs)])
        THEN FComparisons(variables[Head(idxs)], seen[Head(idxs)]) ELSE <<>>)
       \o FComparisonsOver(Tail(idxs))

\* Column col fails a precondition: a missing value, or one single value.
Failing(col) == Missing(col) \/ Constant(col)

\* The indices of the variables read so far whose column does not fail.
NotFailing == SelectSeq([i \in 1..Len(seen) |-> i], LAMBDA i : ~Failing(seen[i]))

\* C2: a variable with a missing value or with all values identical gets no
\* report block and no comparison record; the run goes on (it is not aborted
\* and reads every variable before it ends); and between two variables the
\* report and the records are those of a run over the other variables alone.
C2_FailingVariableIsolated ==
  prog = "friedman" =>
    /\ \A i \in Processed :
         Failing(seen[i]) =>
           NumBlocks(variables[i]) = 0 /\ NumRecords(variables[i]) = 0
    /\ (seen # <<>>) => pc # "aborted"
    /\ (pc = "done") => Len(seen) = Len(variables)
    /\ (pc \in {"f_loop", "done"}) =>
         /\ report = <<Title>> \o FReportOver(NotFailing)
         /\ all_comparisons = FComparisonsOver(NotFailing)

\* A finished run whose first variable has a missing value and whose second
\* variable is reported.
C2_Witness ==
  /\ prog = "friedman"
  /\ pc = "done"
  /\ Len(seen) = 2
  /\ Missing(seen[1])
  /\ NumBlocks(variables[1]) = 0
  /\ NumBlocks(variables[2]) = 1

\* --------------------------------------------- mann_whitney_test: outputs
\* The comparison records of the (variable, round) cell (var, ev).
CellRecords(var, ev) ==
  {i \in DOMAIN all_results :
     all_results[i].Variable = var /\ all_results[i].Evaluacion = ev}

\* The inner loop has just ended a pass: the cell of variable var_idx at round
\* eval_idx - 1 is done, and grupo1, grupo2 are its groups.
CellDone == prog = "mann_whitney" /\ pc = "m_cell" /\ eval_idx > 1

\* C3: a cell has a comparison record if and only if both of its groups have
\* at least 2 values once the missing ones are dropped; no cell has two
\* records; and between cells the number of records is the number of cells
\* read so far that have 2 such values in both groups.
C3_RecordIffBothGroupsHaveTwo ==
  /\ CellDone =>
       (CellRecords(variables[var_idx], evaluaciones[eval_idx - 1]) # {}
          <=> (Len(grupo1) >= 2 /\ Len(grupo2) >= 2))
  /\ \A i, j \in DOMAIN all_results :
       (/\ all_results[i].Variable = all_results[j].Variable
        /\ all_results[i].Evaluacion = all_results[j].Evaluacion) => i = j
  /\ (prog = "mann_whitney" /\ pc \in {"m_var", "m_header", "m_cell", "done"})
       => Len(all_results) = qualified

\* A finished run over 2 variables and 2 rounds in which some cells, not all,
\* have a record.
C3_Witness ==
  /\ prog = "mann_whitney"
  /\ pc = "done"
  /\ Len(variables) = 2
  /\ Len(evaluaciones) = 2
  /\ Len(all_results) = 2

\* C4: in every comparison record, for each group the reported IQR is the
\* reported third quartile minus the reported first quartile, and is not
\* negative.
C4_IqrIsQ75MinusQ25 ==
  \A i \in DOMAIN all_results :
    LET r == all_results[i] IN
    /\ r.RIC_Grupo1 = r.Q75_Grupo1 - r.Q25_Grupo1
    /\ r.RIC_Grupo1 >= 0
    /\ r.RIC_Grupo2 = r.Q75_Grupo2 - r.Q25_Grupo2
    /\ r.RIC_Grupo2 >= 0

\* A record of a group of 3 values whose quartiles differ.
C4_Witness ==
  \E i \in DOMAIN all_results :
    /\ Len(grupo1) = 3
    /\ all_results[i].RIC_Grupo1 > 0
    /\ all_results[i].Q25_Grupo1 < all_results[i].Mediana_Grupo1

\* ------------------------------------------------------------ both programs
\* The accumulated comparison records of the running program.
Accumulated == IF prog = "friedman" THEN all_comparisons ELSE all_results

\* Every variable (and round) has been processed.
LoopsEnded ==
  /\ var_idx > Len(variables)
  /\ pc = "done"

\* C5: the comparisons CSV is written at most once, only after the loops have
\* ended, and with the accumulated records; at the end of a run it has been
\* written exactly when there is at least one record, and otherwise the
\* message has been printed and the file has not been written.
C5_CsvWrittenOnceIffRecords ==
  /\ Len(csv) <= 1
  /\ csv # <<>> => (LoopsEnded /\ csv[1] = Accumulated /\ Accumulated # <<>>)
  /\ diag => (LoopsEnded /\ Accumulated = <<>> /\ csv = <<>>)
  /\ pc = "done" => (IF Accumulated = <<>> THEN diag /\ csv = <<>>
                     ELSE ~diag /\ Len(csv) = 1)

\* A friedman_test run that ended without records: message, no file.
C5_Witness ==
  /\ prog = "friedman"
  /\ pc = "done"
  /\ seen # <<>>
  /\ all_comparisons = <<>>
  /\ diag
  /\ csv = <<>>

\* The positions at which output_file does not exist yet in this run.
BeforeCreation == {"read_latin1", "read_iso", "read_detected", "setup", "aborted"}

\* The positions inside a with-block of output_file.
InsideWith == {"title", "f_write", "m_header", "m_write"}

\* The friedman_test variables whose block, if any, has been written.
FWritten ==
  IF pc \in {"f_open", "f_write"} THEN [i \in 1..(Len(seen) - 1) |-> i]
  ELSE [i \in 1..Len(seen) |-> i]

\* The indices of the report entries of one kind, in file order.
EntriesOf(kind) ==
  SelectSeq([i \in 1..Len(report) |-> i], LAMBDA i : report[i].kind = kind)

\* The variable of the last header written before report entry i.
HeaderBefore(i) ==
  LET hs == {h \in 1..(i - 1) : report[h].kind = "header"}
  IN  report[CHOOSE h \in hs : \A g \in hs : g <= h].Variable

\* The mann_whitney_test variables whose header has been written.
MStarted == IF pc \in {"m_var", "m_header", "done"} THEN var_idx - 1 ELSE var_idx

\* The report of mann_whitney_test: the title, then in processing order the
\* header of every variable started and, under the header of its variable,
\* the block of every cell that has a record (or is about to get it).
MReportInOrder ==
  LET hs == EntriesOf("header")
      es == EntriesOf("eval")
  IN  /\ report[1] = Title
      /\ Len(hs) + Len(es) = Len(report) - 1
      /\ [m \in DOMAIN hs |-> report[hs[m]].Variable] = SubSeq(variables, 1, MStarted)
      /\ Len(es) = Len(all_results) + (IF pc = "m_append" THEN 1 ELSE 0)
      /\ \A m \in DOMAIN es :
           m <= Len(all_results) =>
             /\ HeaderBefore(es[m]) = all_results[m].Variable
             /\ report[es[m]].Evaluacion = all_results[m].Evaluacion
             /\ report[es[m]].Estadistico_U = all_results[m].Estadistico_U
             /\ report[es[m]].Mediana_Grupo1 = all_results[m].Mediana_Grupo1
             /\ report[es[m]].Mediana_Grupo2 = all_results[m].Mediana_Grupo2

\* Once created, at every point of the run: outside the with-block of the
\* title the report is the title followed by the blocks of the units
\* processed so far, in processing order; and the handle is open only inside
\* a with-block.
ReportInOrder ==
  /\ (handle # "closed") <=> (pc \in InsideWith)
  /\ (pc \notin BeforeCreation /\ pc # "title") =>
       IF prog = "friedman"
       THEN report = <<Title>> \o FReportOver(FWritten)
       ELSE MReportInOrder

\* A step after the creation leaves the report as it is or appends one block
\* to it, and a step that appends leaves the handle closed.
ReportAppends ==
  (pc \notin BeforeCreation) =>
    \/ report' = report
    \/ /\ Len(report') = Len(report) + 1
       /\ SubSeq(report', 1, Len(report)) = report
       /\ handle # "closed"
       /\ handle' = "closed"

\* C6: after its creation the report is append-only: it always is the title
\* header followed by the blocks of the units processed so far in processing
\* order, every block is written within its own open-append-close cycle with
\* no handle open between units, and no later step changes a written block.
C6_ReportAppendOnly == []ReportInOrder /\ [][ReportAppends]_vars

\* A finished mann_whitney_test run whose report holds two headers and the
\* blocks of two cells.
C6_Witness ==
  /\ prog = "mann_whitney"
  /\ pc = "done"
  /\ Len(EntriesOf("header")) = 2
  /\ Len(EntriesOf("eval")) = 2
  /\ handle = "closed"

\* The position of encoding candidate enc in the fixed order.
CandidateIndex(enc) == CHOOSE j \in DOMAIN Encodings : Encodings[j] = enc

\* The first candidate, in the fixed order, that file f is readable with.
FirstReadable(f) ==
  Encodings[Min({j \in DOMAIN Encodings : ReadCsv(f, Encodings[j])})]

\* The load is over: the run has left the cascade.
LoadOver == pc \notin {"read_latin1", "read_iso", "read_detected"}

\* C7 as stated: a file is read with a later candidate only after every
\* earlier candidate failed for that same file; a loaded file is loaded with
\* its first candidate that succeeds; the load fails exactly when some file has
\* no candidate that succeeds; and a failed load leaves the run aborted with
\* no report opened or written, no record and no CSV.
C7_AsStated ==
  /\ \A a \in DOMAIN attempts :
       \A j \in 1..(CandidateIndex(attempts[a][2]) - 1) :
         ~ReadCsv(attempts[a][1], Encodings[j])
  /\ (LoadOver /\ pc # "aborted") =>
       \A f \in Range(Files(prog)) : encoding[f] = FirstReadable(f)
  /\ LoadOver =>
       (pc = "aborted" <=> \E f \in Range(Files(prog)) : readable[f] = {})
  /\ pc = "aborted" =>
       /\ report = <<[kind |-> "stale"]>>
       /\ handle = "closed"
       /\ all_comparisons = <<>>
       /\ all_results = <<>>
       /\ csv = <<>>
       /\ ~diag

\* A cell whose first group is not in ascending order in the rows, of a table
\* whose columns and rounds are not in ascending order either, has a record.
C8_Witness ==
  /\ CellDone
  /\ variables = <<"v2", "v1">>
  /\ data[1].evaluacion = 2
  /\ grupo1 # SortedSeq(grupo1)
  /\ CellRecords(variables[var_idx], evaluaciones[eval_idx - 1]) # {}

\* C8: the record of a cell is a function of the variable, the round and the
\* two groups' values taken as multisets (here: in ascending order), whatever
\* the order of the rows, the order of the columns, and the other cells of
\* the run; and the records of a variable come in ascending round order
\* whatever the order of the rows.
C8_CellRecordDependsOnlyOnItsGroups ==
  /\ (CellDone /\ ~Insufficient(grupo1, grupo2)) =>
       all_results[Len(all_results)] =
         MRecord(variables[var_idx], evaluaciones[eval_idx - 1],
                 SortedSeq(grupo1), SortedSeq(grupo2))
  /\ \A i, j \in DOMAIN all_results :
       (i < j /\ all_results[i].Variable = all_results[j].Variable)
         => all_results[i].Evaluacion < all_results[j].Evaluacion

\* C9 as stated: a matrix handed to the Friedman test has no empty cell (no
\* row of a patient lacking a round), at least 2 columns and values that are
\* not all the same.
C9_AsStated ==
  (prog = "friedman" /\ friedman_X # <<>>) =>
    /\ ~HasNaNCell(friedman_X)
    /\ NumCols(friedman_X) >= 2
    /\ ~AllEqual(friedman_X)

\* The index of variable v among the columns analysed.
VarIndex(v) == CHOOSE i \in DOMAIN variables : variables[i] = v

\* The matrix column of round e: its position among the rounds in ascending order.
ColOf(e) ==
  LET evs == SortSet(Rounds) IN CHOOSE b \in DOMAIN evs : evs[b] = e

\* C10 as stated: every comparison record carries the post-hoc entry whose row
\* is the matrix column of its Grupo1 and whose column is the matrix column of
\* its Grupo2, and for a variable with records every unordered pair of rounds
\* is named by exactly one of them.
C10_AsStated ==
  /\ \A m \in DOMAIN all_comparisons :
       LET r == all_comparisons[m]
           nemenyi == PosthocNemenyi(Pivot(data, seen[VarIndex(r.Variable)]))
       IN  r.p_valor = nemenyi[ColOf(r.Grupo1)][ColOf(r.Grupo2)]
  /\ \A m \in DOMAIN all_comparisons :
       \A a, b \in Rounds :
         a # b =>
           Cardinality({n \in DOMAIN all_comparisons :
                          /\ all_comparisons[n].Variable = all_comparisons[m].Variable
                          /\ {all_comparisons[n].Grupo1, all_comparisons[n].Grupo2} = {a, b}}) = 1

\* The comparison records of all_comparisons that name variable v, in order.
RecordsOf(v) == SelectSeq(all_comparisons, LAMBDA r : r.Variable = v)

\* C11: for every variable whose pass of the loop is over, and so for every
\* variable at the end of the run, the report holds a block of the variable
\* if and only if all_comparisons holds the full list of its comparison
\* records (one per pair of rounds, at least one), and holds no record of it
\* otherwise; and once the block is appended the building of the records
\* raises no exception (the loop indices stay inside the post-hoc matrix), so
\* no block is left with none or part of its records.
C11_BlockIffAllRecords ==
  /\ (prog = "friedman" /\ pc = "f_records") => ~IlocRaises(current_data)
  /\ \A i \in Processed :
       /\ NumBlocks(variables[i]) \in {0, 1}
       /\ NumBlocks(variables[i]) = 1 =>
            /\ RecordsOf(variables[i]) = FComparisons(variables[i], seen[i])
            /\ Len(RecordsOf(variables[i])) = Choose2(num_evals)
            /\ Len(RecordsOf(variables[i])) >= 1
       /\ NumBlocks(variables[i]) = 0 => RecordsOf(variables[i]) = <<>>

\* The end of a run over two variables of which one has a block and its 3
\* records and the other has neither.
C11_Witness ==
  /\ prog = "friedman"
  /\ pc = "done"
  /\ Len(seen) = 2
  /\ \E i, j \in Processed :
       /\ NumBlocks(variables[i]) = 1
       /\ Len(RecordsOf(variables[i])) = 3
       /\ NumBlocks(variables[j]) = 0
       /\ RecordsOf(variables[j]) = <<>>

====
